---- MODULE Spec2Model ----
(***************************************************************************)
(* Fake-news detection demo (src/main.py): a Streamlit script that loads a *)
(* vectorizer and four classifiers through a process-wide resource cache,  *)
(* and on "Detect" transforms the pasted text, asks every classifier for a *)
(* label and an optional confidence, and shows the majority vote.          *)
(*                                                                         *)
(* One script run is modelled statement block by statement block (pc).     *)
(* Python dicts keep insertion order and are modelled as sequences of      *)
(* [name, val] entries with distinct names.  Optional Python values are    *)
(* tagged records; probabilities are integers in hundredths.               *)
(***************************************************************************)
EXTENDS Integers, Sequences, FiniteSets, TLC

\* ---- bounds of the model ------------------------------------------------
MaxTextLen == 1       \* longest text typed into the text area
MaxLoadRuns == 2      \* executions of load_artifacts' body per process
MaxVoters == 4        \* largest mapping handed to majority_vote by VoteSpec

VARIABLES
    pc,            \* position of the script run ("idle": no run in progress)
    news_text,     \* value of the text area in this run
    detect_btn,    \* st.button("Detect News") in this run
    clear_btn,     \* st.button("Clear") in this run
    cache,         \* st.cache_resource entry of load_artifacts
    deser,         \* per artifact file: successful joblib.load calls so far
    loadRuns,      \* executions of load_artifacts' body so far
    hit,           \* this run's load_artifacts() was answered from the cache
    models,        \* script global `models` of this run
    X,             \* script local `X` of this run
    idx,           \* position of the `for name, model in models.items()` loop
    model_preds,   \* script local dict name -> label
    model_confs,   \* script local dict name -> confidence or None
    calls,         \* this run's calls of transform / predict / predict_proba
    voteLog,       \* this run's calls of majority_vote: [arg, ret]
    exc,           \* exception raised in this run (<<>> when none)
    ui             \* elements rendered by this run

vars == <<pc, news_text, detect_btn, clear_btn, cache, deser, loadRuns, hit,
          models, X, idx, model_preds, model_confs, calls, voteLog, exc, ui>>

\* ---- Python values ------------------------------------------------------
None == [tag |-> "None"]
Float(v) == [tag |-> "float", val |-> v]

Labels == {0, 1}

\* rows of predict_proba(X): one probability per class, in hundredths
ProbaVectors == {<<0, 0>>, <<30, 70>>}

Chars == {" ", "a"}
IsSpace(c) == c = " "
Texts == UNION {[1..n -> Chars] : n \in 0..MaxTextLen}

RECURSIVE lstrip(_)
lstrip(s) == IF s # <<>> /\ IsSpace(Head(s)) THEN lstrip(Tail(s)) ELSE s

RECURSIVE rstrip(_)
rstrip(s) ==
    IF s # <<>> /\ IsSpace(s[Len(s)]) THEN rstrip(SubSeq(s, 1, Len(s) - 1)) ELSE s

strip_none(s) == s

\* str.strip() of line 136
strip(s) == rstrip(lstrip(s))

\* ---- ordered dicts -------------------------------------------------------
Keys(d) == {d[j].name : j \in DOMAIN d}

\* list(d.values())
Values(d) == [j \in DOMAIN d |-> d[j].val]

\* d[name]
DictGet(d, name) == d[CHOOSE j \in DOMAIN d : d[j].name = name].val

\* d[name] = val : an existing key keeps its position, a new one is appended
DictSet(d, name, val) ==
    IF name \in Keys(d)
    THEN [j \in DOMAIN d |-> IF d[j].name = name THEN [name |-> name, val |-> val] ELSE d[j]]
    ELSE Append(d, [name |-> name, val |-> val])

\* ---- artifacts -----------------------------------------------------------
Files == <<"tfidf.pkl", "lr.pkl", "Decision.pkl", "random.pkl", "Boosting.pkl">>
ModelNames == <<"Logistic Regression", "Naive Bayes", "SVM", "Model 2">>

\* a deserialized classifier; has_proba is hasattr(model, "predict_proba")
Classifier(file, cap) == [file |-> file, has_proba |-> cap]

\* the value load_artifacts returns when every joblib.load succeeds
Artifacts(caps) ==
    [tag |-> "value",
     tfidf |-> [file |-> Files[1]],
     models |-> [j \in 1..4 |->
                    [name |-> ModelNames[j], val |-> Classifier(Files[j + 1], caps[j])]]]

NoCache == [tag |-> "empty"]

LoadError(file) == [kind |-> "load", msg |-> <<"cannot load", file>>]
InferenceError(op, file) == [kind |-> "inference", msg |-> <<op, "failed", file>>]

\* str(e)
Str(e) == e.msg

\* ---- helper functions ----------------------------------------------------
RECURSIVE SeqMax(_)
SeqMax(s) ==
    IF Len(s) = 1 THEN s[1]
    ELSE LET m == SeqMax(Tail(s)) IN IF s[1] > m THEN s[1] ELSE m

get_prediction_zero(model, pred, proba) ==
    <<pred, IF model.has_proba THEN Float(SeqMax(proba)) ELSE Float(0)>>

\* get_prediction: pred and proba are what model.predict(X)[0] and
\* model.predict_proba(X)[0] returned
get_prediction(model, pred, proba) ==
    <<pred, IF model.has_proba THEN Float(SeqMax(proba)) ELSE None>>

\* list.count(v)
RECURSIVE count(_, _)
count(preds, v) ==
    IF preds = <<>> THEN 0
    ELSE (IF Head(preds) = v THEN 1 ELSE 0) + count(Tail(preds), v)

majority_vote_ge(pred_dict) ==
    LET preds == Values(pred_dict)
        ones == count(preds, 1)
        zeros == count(preds, 0)
    IN [final |-> IF ones >= zeros THEN 1 ELSE 0, ones |-> ones, zeros |-> zeros]

majority_vote_len(pred_dict) ==
    LET preds == Values(pred_dict)
        ones == count(preds, 1)
        zeros == Len(preds)
    IN [final |-> IF ones > zeros THEN 1 ELSE 0, ones |-> ones, zeros |-> zeros]

majority_vote_first(pred_dict) ==
    LET preds == Values(pred_dict)
        ones == count(preds, 1)
        zeros == count(preds, 0)
    IN [final |-> IF ones > zeros THEN 1
                  ELSE IF ones = zeros /\ preds # <<>> THEN preds[1] ELSE 0,
        ones |-> ones, zeros |-> zeros]

majority_vote(pred_dict) ==
    LET preds == Values(pred_dict)
        ones == count(preds, 1)
        zeros == count(preds, 0)
    IN [final |-> IF ones > zeros THEN 1 ELSE 0, ones |-> ones, zeros |-> zeros]

\* ---- rendering -----------------------------------------------------------
NoUI == [error |-> <<>>, form |-> FALSE, warning |-> FALSE, info |-> FALSE,
         verdict |-> <<>>, rows |-> <<>>, exception |-> <<>>]

\* the "Final Result" card of lines 155-164
Card(r) == [badge |-> IF r.final = 1 THEN "REAL" ELSE "FAKE",
            ones |-> r.ones, zeros |-> r.zeros]

\* one st.write of lines 170-177; the confidence is printed in hundredths
Row(name, pred_val, conf) ==
    LET result == IF pred_val = 1 THEN "REAL" ELSE "FAKE"
    IN IF conf # None THEN <<name, result, conf.val>> ELSE <<name, result>>

Call(op, file, arg, ret) == [op |-> op, name |-> file, arg |-> arg, ret |-> ret]

NoX == [tag |-> "unset"]

\* the one-document list [news_text]
Docs(text) == [tag |-> "docs", doc |-> text]

\* tfidf.transform([news_text]): an opaque vector determined by the document
Vector(text) == [tag |-> "vector", doc |-> text]

\* ---- the script: one Streamlit run ----------------------------------------
Init ==
    /\ pc = "idle"
    /\ news_text = <<>>
    /\ detect_btn = FALSE
    /\ clear_btn = FALSE
    /\ cache = NoCache
    /\ deser = [f \in 1..Len(Files) |-> 0]
    /\ loadRuns = 0
    /\ hit = FALSE
    /\ models = <<>>
    /\ X = NoX
    /\ idx = 1
    /\ model_preds = <<>>
    /\ model_confs = <<>>
    /\ calls = <<>>
    /\ voteLog = <<>>
    /\ exc = <<>>
    /\ ui = NoUI

\* the fresh namespace and empty page every script run starts with
FreshRun ==
    /\ hit' = FALSE
    /\ models' = <<>>
    /\ X' = NoX
    /\ idx' = 1
    /\ model_preds' = <<>>
    /\ model_confs' = <<>>
    /\ calls' = <<>>
    /\ voteLog' = <<>>
    /\ exc' = <<>>
    /\ ui' = NoUI

\* Streamlit starts a run: a page load, or a widget event of the page the
\* last run left on screen (text and buttons exist only if it drew the form)
StartRun ==
    /\ pc = "idle"
    /\ \E text \in Texts, d \in BOOLEAN, c \in BOOLEAN :
          /\ ~(d /\ c)
          /\ ~ui.form => (text = <<>> /\ ~d /\ ~c)
          /\ news_text' = text
          /\ detect_btn' = d
          /\ clear_btn' = c
    /\ FreshRun
    /\ pc' = "load"
    /\ UNCHANGED <<cache, deser, loadRuns>>

\* lines 102-103 with the cached value: no joblib.load is executed
LoadArtifactsHit ==
    /\ pc = "load"
    /\ cache # NoCache
    /\ hit' = TRUE
    /\ models' = cache.models
    /\ pc' = "form"
    /\ UNCHANGED <<news_text, detect_btn, clear_btn, cache, deser, loadRuns, X, idx,
                   model_preds, model_confs, calls, voteLog, exc, ui>>

\* lines 53-64, 102-103 on a cache miss, every joblib.load succeeding: the
\* returned value is stored in the cache
LoadArtifactsOk ==
    /\ pc = "load"
    /\ cache = NoCache
    /\ loadRuns < MaxLoadRuns
    /\ \E caps \in [1..4 -> BOOLEAN] :
          /\ cache' = Artifacts(caps)
          /\ models' = Artifacts(caps).models
    /\ deser' = [f \in DOMAIN deser |-> deser[f] + 1]
    /\ loadRuns' = loadRuns + 1
    /\ pc' = "form"
    /\ UNCHANGED <<news_text, detect_btn, clear_btn, hit, X, idx, model_preds,
                   model_confs, calls, voteLog, exc, ui>>

LoadArtifactsFails_nostop ==
    /\ pc = "load"
    /\ cache = NoCache
    /\ loadRuns < MaxLoadRuns
    /\ \E k \in 1..Len(Files) :
          /\ deser' = [f \in DOMAIN deser |-> IF f < k THEN deser[f] + 1 ELSE deser[f]]
          /\ exc' = <<LoadError(Files[k])>>
          /\ ui' = [ui EXCEPT !.error =
                       <<[msg |-> "Error loading models/vectorizer.",
                          code |-> Str(LoadError(Files[k]))]>>]
    /\ loadRuns' = loadRuns + 1
    /\ pc' = "form"
    /\ UNCHANGED <<news_text, detect_btn, clear_btn, cache, hit, models, X, idx,
                   model_preds, model_confs, calls, voteLog>>

\* lines 53-64, 102-107 on a cache miss, the k-th joblib.load raising: the
\* files before it were deserialized, nothing is cached, the error is shown
\* and st.stop() ends the run
LoadArtifactsFails ==
    /\ pc = "load"
    /\ cache = NoCache
    /\ loadRuns < MaxLoadRuns
    /\ \E k \in 1..Len(Files) :
          /\ deser' = [f \in DOMAIN deser |-> IF f < k THEN deser[f] + 1 ELSE deser[f]]
          /\ exc' = <<LoadError(Files[k])>>
          /\ ui' = [ui EXCEPT !.error =
                       <<[msg |-> "Error loading models/vectorizer.",
                          code |-> Str(LoadError(Files[k]))]>>]
    /\ loadRuns' = loadRuns + 1
    /\ pc' = "idle"
    /\ UNCHANGED <<news_text, detect_btn, clear_btn, cache, hit, models, X, idx,
                   model_preds, model_confs, calls, voteLog>>

\* lines 111-125: the text area and the two buttons; Clear was not clicked
RenderForm ==
    /\ pc = "form"
    /\ ~clear_btn
    /\ ui' = [ui EXCEPT !.form = TRUE]
    /\ pc' = "right"
    /\ UNCHANGED <<news_text, detect_btn, clear_btn, cache, deser, loadRuns, hit, models,
                   X, idx, model_preds, model_confs, calls, voteLog, exc>>

ClearRerun_dropcache ==
    /\ pc = "form"
    /\ clear_btn
    /\ clear_btn' = FALSE
    /\ cache' = NoCache
    /\ FreshRun
    /\ pc' = "load"
    /\ UNCHANGED <<news_text, detect_btn, deser, loadRuns>>

\* lines 111-129 with Clear clicked: st.session_state.clear() (the script
\* keeps nothing in the session state) and st.rerun(): the script starts
\* over with the same text and no button pressed
ClearRerun ==
    /\ pc = "form"
    /\ clear_btn
    /\ clear_btn' = FALSE
    /\ FreshRun
    /\ pc' = "load"
    /\ UNCHANGED <<news_text, detect_btn, cache, deser, loadRuns>>

\* lines 135, 182-183: no Detect click
NoDetect ==
    /\ pc = "right"
    /\ ~detect_btn
    /\ ui' = [ui EXCEPT !.info = TRUE]
    /\ pc' = "idle"
    /\ UNCHANGED <<news_text, detect_btn, clear_btn, cache, deser, loadRuns, hit, models,
                   X, idx, model_preds, model_confs, calls, voteLog, exc>>

\* lines 135-137: Detect with nothing but whitespace
DetectBlank ==
    /\ pc = "right"
    /\ detect_btn
    /\ strip(news_text) = <<>>
    /\ ui' = [ui EXCEPT !.warning = TRUE]
    /\ pc' = "idle"
    /\ UNCHANGED <<news_text, detect_btn, clear_btn, cache, deser, loadRuns, hit, models,
                   X, idx, model_preds, model_confs, calls, voteLog, exc>>

\* lines 138-144: the text is vectorized and the two dicts are created
Transform ==
    /\ pc = "right"
    /\ detect_btn
    /\ strip(news_text) # <<>>
    /\ X' = Vector(news_text)
    /\ calls' = Append(calls, Call("transform", cache.tfidf.file, Docs(news_text), <<>>))
    /\ model_preds' = <<>>
    /\ model_confs' = <<>>
    /\ idx' = 1
    /\ pc' = "predict"
    /\ UNCHANGED <<news_text, detect_btn, clear_btn, cache, deser, loadRuns, hit, models,
                   voteLog, exc, ui>>

\* line 140 raising: nothing catches it, Streamlit shows it and the run ends
TransformRaises ==
    /\ pc = "right"
    /\ detect_btn
    /\ strip(news_text) # <<>>
    /\ calls' = Append(calls, Call("transform", cache.tfidf.file, Docs(news_text), <<>>))
    /\ exc' = <<InferenceError("transform", cache.tfidf.file)>>
    /\ ui' = [ui EXCEPT !.exception = <<InferenceError("transform", cache.tfidf.file)>>]
    /\ pc' = "idle"
    /\ UNCHANGED <<news_text, detect_btn, clear_btn, cache, deser, loadRuns, hit, models,
                   X, idx, model_preds, model_confs, voteLog>>

\* the calls one get_prediction(model, X) makes when nothing raises
PredictionCalls(model, pred, proba) ==
    <<Call("predict", model.file, X, <<pred>>)>>
    \o (IF model.has_proba THEN <<Call("predict_proba", model.file, X, proba)>> ELSE <<>>)

GetPredictionOk_twice ==
    /\ pc = "predict"
    /\ idx <= Len(models)
    /\ \E pred \in Labels, proba \in ProbaVectors :
          LET name == models[idx].name
              model == models[idx].val
              r == get_prediction(model, pred, proba)
          IN /\ calls' = calls \o <<Call("predict", model.file, X, <<pred>>)>>
                               \o PredictionCalls(model, pred, proba)
             /\ model_preds' = DictSet(model_preds, name, r[1])
             /\ model_confs' = DictSet(model_confs, name, r[2])
    /\ idx' = idx + 1
    /\ pc' = IF idx = Len(models) THEN "vote" ELSE "predict"
    /\ UNCHANGED <<news_text, detect_btn, clear_btn, cache, deser, loadRuns, hit, models,
                   X, voteLog, exc, ui>>

\* lines 146-149: one iteration of the loop over models.items(), the
\* classifier answering with label pred and, asked for it, probabilities proba
GetPredictionOk ==
    /\ pc = "predict"
    /\ idx <= Len(models)
    /\ \E pred \in Labels, proba \in ProbaVectors :
          LET name == models[idx].name
              model == models[idx].val
              r == get_prediction(model, pred, proba)
          IN /\ calls' = calls \o PredictionCalls(model, pred, proba)
             /\ model_preds' = DictSet(model_preds, name, r[1])
             /\ model_confs' = DictSet(model_confs, name, r[2])
    /\ idx' = idx + 1
    /\ pc' = IF idx = Len(models) THEN "vote" ELSE "predict"
    /\ UNCHANGED <<news_text, detect_btn, clear_btn, cache, deser, loadRuns, hit, models,
                   X, voteLog, exc, ui>>

GetPredictionRaises_skip ==
    /\ pc = "predict"
    /\ idx <= Len(models)
    /\ calls' = Append(calls, Call("predict", models[idx].val.file, X, <<>>))
    /\ idx' = idx + 1
    /\ pc' = IF idx = Len(models) THEN "vote" ELSE "predict"
    /\ UNCHANGED <<news_text, detect_btn, clear_btn, cache, deser, loadRuns, hit, models,
                   X, model_preds, model_confs, voteLog, exc, ui>>

\* lines 146-147, 70-75 with model.predict, or model.predict_proba after a
\* label was returned, raising: nothing catches it, Streamlit shows the
\* exception and the run ends
GetPredictionRaises ==
    /\ pc = "predict"
    /\ idx <= Len(models)
    /\ LET model == models[idx].val
       IN \/ /\ calls' = Append(calls, Call("predict", model.file, X, <<>>))
             /\ exc' = <<InferenceError("predict", model.file)>>
             /\ ui' = [ui EXCEPT !.exception = <<InferenceError("predict", model.file)>>]
          \/ /\ model.has_proba
             /\ \E pred \in Labels :
                   calls' = calls \o <<Call("predict", model.file, X, <<pred>>),
                                       Call("predict_proba", model.file, X, <<>>)>>
             /\ exc' = <<InferenceError("predict_proba", model.file)>>
             /\ ui' = [ui EXCEPT !.exception =
                          <<InferenceError("predict_proba", model.file)>>]
    /\ pc' = "idle"
    /\ UNCHANGED <<news_text, detect_btn, clear_btn, cache, deser, loadRuns, hit, models,
                   X, idx, model_preds, model_confs, voteLog>>

\* lines 151-164: the vote and the "Final Result" card
MajorityVote ==
    /\ pc = "vote"
    /\ voteLog' = Append(voteLog, [arg |-> model_preds, ret |-> majority_vote(model_preds)])
    /\ ui' = [ui EXCEPT !.verdict = <<Card(majority_vote(model_preds))>>]
    /\ pc' = "rows"
    /\ UNCHANGED <<news_text, detect_btn, clear_btn, cache, deser, loadRuns, hit, models,
                   X, idx, model_preds, model_confs, calls, exc>>

\* lines 166-180: one row per entry of model_preds, in its order
RenderRows ==
    /\ pc = "rows"
    /\ ui' = [ui EXCEPT !.rows =
                 [j \in DOMAIN model_preds |->
                     LET name == model_preds[j].name
                     IN Row(name, DictGet(model_preds, name), DictGet(model_confs, name))]]
    /\ pc' = "idle"
    /\ UNCHANGED <<news_text, detect_btn, clear_btn, cache, deser, loadRuns, hit, models,
                   X, idx, model_preds, model_confs, calls, voteLog, exc>>

Next ==
    \/ StartRun
    \/ LoadArtifactsHit
    \/ LoadArtifactsOk
    \/ LoadArtifactsFails
    \/ RenderForm
    \/ ClearRerun
    \/ NoDetect
    \/ DetectBlank
    \/ Transform
    \/ TransformRaises
    \/ GetPredictionOk
    \/ GetPredictionRaises
    \/ MajorityVote
    \/ RenderRows

Spec == Init /\ [][Next]_vars

\* ---- majority_vote on arbitrary mappings ----------------------------------
\* The aggregation of lines 143-164 driven over every ordered mapping of up
\* to MaxVoters names, built in any insertion order.
NamePool == <<"A", "B", "C", "D", "E", "F">>
VoterNames == {NamePool[j] : j \in 1..MaxVoters}

InitVote ==
    /\ pc = "build"
    /\ news_text = <<>>
    /\ detect_btn = FALSE
    /\ clear_btn = FALSE
    /\ cache = NoCache
    /\ deser = [f \in 1..Len(Files) |-> 0]
    /\ loadRuns = 0
    /\ hit = FALSE
    /\ models = <<>>
    /\ X = NoX
    /\ idx = 1
    /\ model_preds = <<>>
    /\ model_confs = <<>>
    /\ calls = <<>>
    /\ voteLog = <<>>
    /\ exc = <<>>
    /\ ui = NoUI

\* line 148: model_preds[name] = pred, for a name not yet voted
VoteInsert ==
    /\ pc = "build"
    /\ \E name \in VoterNames \ Keys(model_preds), pred \in Labels :
          model_preds' = DictSet(model_preds, name, pred)
    /\ UNCHANGED <<pc, news_text, detect_btn, clear_btn, cache, deser, loadRuns, hit,
                   models, X, idx, model_confs, calls, voteLog, exc, ui>>

\* lines 151-164 on the mapping built so far
VoteCall ==
    /\ pc = "build"
    /\ model_preds # <<>>
    /\ voteLog' = Append(voteLog, [arg |-> model_preds, ret |-> majority_vote(model_preds)])
    /\ ui' = [ui EXCEPT !.verdict = <<Card(majority_vote(model_preds))>>]
    /\ pc' = "called"
    /\ UNCHANGED <<news_text, detect_btn, clear_btn, cache, deser, loadRuns, hit, models,
                   X, idx, model_preds, model_confs, calls, exc>>

\* lines 143-144: the next request starts from empty dicts
VoteReset ==
    /\ pc = "called"
    /\ model_preds' = <<>>
    /\ voteLog' = <<>>
    /\ ui' = NoUI
    /\ pc' = "build"
    /\ UNCHANGED <<news_text, detect_btn, clear_btn, cache, deser, loadRuns, hit, models,
                   X, idx, model_confs, calls, exc>>

NextVote ==
    \/ VoteInsert
    \/ VoteCall
    \/ VoteReset

VoteSpec == InitVote /\ [][NextVote]_vars

\* ---- properties -----------------------------------------------------------
\* the text is empty or holds nothing but whitespace
Blank(text) == \A j \in DOMAIN text : IsSpace(text[j])

NCalls(op, file) ==
    Cardinality({k \in DOMAIN calls : calls[k].op = op /\ calls[k].name = file})

Votes(arg, v) == Cardinality({j \in DOMAIN arg : arg[j].val = v})

\* C1: for every non-empty mapping name -> label in {0,1}, of any size,
\* majority_vote returns final label 1 exactly when strictly more entries are
\* 1 than 0, and 0 otherwise; a tie yields 0.
C1_MajorityRule ==
    \A i \in DOMAIN voteLog :
        LET arg == voteLog[i].arg
            ret == voteLog[i].ret
        IN arg # <<>> =>
              /\ ret.final \in {0, 1}
              /\ ret.final = 1 <=> Votes(arg, 1) > Votes(arg, 0)
              /\ Votes(arg, 1) = Votes(arg, 0) => ret.final = 0

\* a four-entry mapping with two votes each way was aggregated to 0
C1_Witness ==
    /\ voteLog # <<>>
    /\ Len(voteLog[1].arg) = 4
    /\ Votes(voteLog[1].arg, 1) = 2
    /\ Votes(voteLog[1].arg, 0) = 2
    /\ voteLog[1].ret.final = 0

C3_BlankRejected ==
    (detect_btn /\ Blank(news_text)) =>
        /\ calls = <<>>
        /\ voteLog = <<>>
        /\ X = NoX
        /\ ui.verdict = <<>>
        /\ ui.rows = <<>>
        /\ pc \in {"idle", "load", "form", "right"}
        /\ pc = "idle" => ui.warning

\* a finished Detect run on a text of whitespace only
C3_Witness ==
    /\ pc = "idle"
    /\ detect_btn
    /\ news_text # <<>>
    /\ Blank(news_text)
    /\ ui.warning

\* C4: a run in which load_artifacts raised shows the error with the
\* failure's description and has stopped: no form, no text or click taken,
\* no inference.
C4_LoadFailureStops ==
    (exc # <<>> /\ exc[1].kind = "load") =>
        /\ ui.error # <<>>
        /\ ui.error[1].code = exc[1].msg
        /\ \E k \in DOMAIN Files : ui.error[1].code[2] = Files[k]
        /\ pc = "idle"
        /\ ~ui.form
        /\ news_text = <<>>
        /\ ~detect_btn
        /\ ~clear_btn
        /\ calls = <<>>
        /\ voteLog = <<>>
        /\ ui.verdict = <<>>
        /\ ui.rows = <<>>

\* loading failed at a classifier file, after the vectorizer was read
C4_Witness ==
    /\ exc # <<>>
    /\ exc[1].kind = "load"
    /\ deser[1] = 1
    /\ ui.error # <<>>

\* C5: get_prediction's confidence is None exactly for a classifier without
\* predict_proba and otherwise the maximum of the probabilities it returned;
\* a row shows a confidence exactly when it is not None, 0.0 included.
C5_Confidence ==
    /\ \A j \in DOMAIN model_confs :
          LET model == models[j].val
              conf == model_confs[j].val
          IN /\ model_confs[j].name = models[j].name
             /\ model_preds[j].name = models[j].name
             /\ (conf = None) <=> ~model.has_proba
             /\ \E c \in {calls[k] : k \in DOMAIN calls} :
                   /\ c.op = "predict"
                   /\ c.name = model.file
                   /\ c.ret = <<model_preds[j].val>>
             /\ model.has_proba =>
                   /\ conf.tag = "float"
                   /\ \E c \in {calls[k] : k \in DOMAIN calls} :
                         /\ c.op = "predict_proba"
                         /\ c.name = model.file
                         /\ \E n \in DOMAIN c.ret : c.ret[n] = conf.val
                         /\ \A n \in DOMAIN c.ret : c.ret[n] <= conf.val
    /\ \A j \in DOMAIN ui.rows :
          /\ Len(ui.rows[j]) = 3 <=> model_confs[j].val # None
          /\ Len(ui.rows[j]) = 3 => ui.rows[j][3] = model_confs[j].val.val

\* the rows show a confidence of 0.00 for one classifier and none for another
C5_Witness ==
    /\ \E j \in DOMAIN ui.rows : Len(ui.rows[j]) = 3 /\ ui.rows[j][3] = 0
    /\ \E j \in DOMAIN ui.rows : Len(ui.rows[j]) = 2
    /\ \E j \in DOMAIN ui.rows : Len(ui.rows[j]) = 3 /\ ui.rows[j][3] = 70

\* C6 as stated: no artifact is deserialized more than once in the process,
\* reruns after a failed load included.
C6_DeserializedAtMostOnce == \A f \in DOMAIN deser : deser[f] <= 1

\* C6 amended: once load_artifacts has succeeded, its value stays in the
\* cache unchanged and no artifact is deserialized again, whatever the user
\* does (failed loads cache nothing and are retried by the next run).
C6_LoadedOnce ==
    [][cache # NoCache =>
          /\ cache' = cache
          /\ deser' = deser
          /\ loadRuns' = loadRuns
          /\ models' # <<>> => models' = cache.models]_vars

\* a failed load, then a successful one, then a Detect run served from the cache
C6_Witness ==
    /\ hit
    /\ deser[1] = 2
    /\ deser[5] = 1
    /\ pc = "idle"
    /\ ui.verdict # <<>>

\* C8: the result does not depend on the order of the mapping: every
\* permutation of the entries gives the same (final, ones, zeros), a tie
\* giving 0 whoever voted which way.
C8_OrderInsensitive ==
    \A i \in DOMAIN voteLog :
        LET arg == voteLog[i].arg
            ret == voteLog[i].ret
        IN \A p \in Permutations(DOMAIN arg) :
              LET permuted == [j \in DOMAIN arg |-> arg[p[j]]]
              IN /\ majority_vote(permuted) = ret
                 /\ ret.ones = ret.zeros => majority_vote(permuted).final = 0

\* a 2-2 tie whose first inserted vote is 1
C8_Witness ==
    /\ voteLog # <<>>
    /\ Len(voteLog[1].arg) = 4
    /\ voteLog[1].arg[1].val = 1
    /\ voteLog[1].ret.ones = 2
    /\ voteLog[1].ret.zeros = 2

C10_FailureShowsNoVerdict ==
    /\ (\E k \in DOMAIN calls :
           calls[k].op \in {"predict", "predict_proba"} /\ calls[k].ret = <<>>) =>
          /\ pc = "idle"
          /\ exc # <<>>
          /\ ui.exception = exc
          /\ voteLog = <<>>
          /\ ui.verdict = <<>>
          /\ ui.rows = <<>>
    /\ ui.verdict # <<>> =>
          /\ exc = <<>>
          /\ Len(voteLog[1].arg) = Len(models)

\* the third classifier raised after two had voted: nothing is shown
C10_Witness ==
    /\ pc = "idle"
    /\ Len(model_preds) = 2
    /\ exc # <<>>
    /\ exc[1].kind = "inference"
    /\ \E k \in DOMAIN calls : calls[k].op = "predict_proba" /\ calls[k].ret = <<>>
    /\ ui.verdict = <<>>

====
